---- MODULE Spec2Model ----
(***************************************************************************)
(* A model of LegModel (client/aircraft/FlightManagementSystem/LegModel.js) *)
(* of openscope: one leg of a flight plan, its route string, its two        *)
(* waypoint collections and the operations that move waypoints between      *)
(* them or re-derive them.                                                  *)
(*                                                                          *)
(* Strings are sequences of one-character strings, so that indexOf, split,  *)
(* substr and concat are computed character by character.                   *)
(***************************************************************************)
EXTENDS Integers, Sequences, FiniteSets, TLC

\* ------------------------------ BOUNDS ------------------------------

\* longest generated route string over RouteAlphabet
MaxRouteLen == 5
\* how many times init may be called or a runway update may generate waypoints
MaxDerivations == 2
\* how many times moveToNextWaypoint may run on an empty collection
MaxUndefined == 1

\* ------------------------------ CONSTANTS ------------------------------

INVALID_INDEX == -1
INVALID_NUMBER == -1
PROCEDURE_OR_AIRWAY_SEGMENT_DIVIDER == "."
LEG_TYPE == [AIRWAY |-> "airway", DIRECT |-> "direct", PROCEDURE |-> "procedure",
             SID |-> "SID", STAR |-> "STAR"]

\* the JavaScript values undefined and null, where a string, a waypoint
\* or a definition reference is expected
undefined == <<"undefined">>
null == <<"null">>
undefinedWaypoint == [name |-> undefined, id |-> <<0, 0>>]

_isNil(value) == value = undefined \/ value = null

\* ------------------------------ STRINGS ------------------------------

\* String.prototype.indexOf(pattern): 0-based index of the first occurrence, or -1
indexOf(str, pattern) ==
    LET hits == {i \in 1..(Len(str) - Len(pattern) + 1) :
                    SubSeq(str, i, i + Len(pattern) - 1) = pattern}
    IN  IF hits = {} THEN -1
        ELSE (CHOOSE i \in hits : \A j \in hits : i <= j) - 1

\* String.prototype.split(divider) for a one-character divider
RECURSIVE split(_, _)
split(str, divider) ==
    LET at == indexOf(str, <<divider>>)
    IN  IF at = -1 THEN <<str>>
        ELSE <<SubSeq(str, 1, at)>> \o split(SubSeq(str, at + 2, Len(str)), divider)

\* array element access: reading past the end yields undefined
elementAt(array, index) ==
    IF index + 1 \in 1..Len(array) THEN array[index + 1] ELSE undefined

\* String.prototype.substr(start) and substr(start, length), start >= 0
substr(str, start) == SubSeq(str, start + 1, Len(str))
substr2(str, start, length) ==
    SubSeq(str, start + 1, IF start + length < Len(str) THEN start + length ELSE Len(str))

concat(a, b) == a \o b

\* String.prototype.toUpperCase, letter by letter
LowerCaseLetters == <<"a", "b", "c", "d", "e", "f", "g", "h", "i", "j", "k", "l", "m",
                      "n", "o", "p", "q", "r", "s", "t", "u", "v", "w", "x", "y", "z">>
UpperCaseLetters == <<"A", "B", "C", "D", "E", "F", "G", "H", "I", "J", "K", "L", "M",
                      "N", "O", "P", "Q", "R", "S", "T", "U", "V", "W", "X", "Y", "Z">>

UpperCaseOf ==
    [letter \in {LowerCaseLetters[k] : k \in 1..26} |->
        UpperCaseLetters[CHOOSE k \in 1..26 : LowerCaseLetters[k] = letter]]

toUpperCase(str) ==
    [i \in 1..Len(str) |->
        IF str[i] \in DOMAIN UpperCaseOf THEN UpperCaseOf[str[i]] ELSE str[i]]

\* Math.min and Math.max of a list of numbers; of no numbers they are
\* Infinity and -Infinity, here a number beyond every altitude
Infinity == 1000000

MathMin(values) ==
    IF values = <<>> THEN Infinity
    ELSE values[CHOOSE i \in 1..Len(values) : \A j \in 1..Len(values) : values[i] <= values[j]]

MathMax(values) ==
    IF values = <<>> THEN -Infinity
    ELSE values[CHOOSE i \in 1..Len(values) : \A j \in 1..Len(values) : values[i] >= values[j]]

\* lodash without(array, value)
_without(array, value) == SelectSeq(array, LAMBDA element : element # value)

\* ------------------------------ NAVIGATION DATA ------------------------------

KSEA == <<"K", "S", "E", "A">>
RWY16 == <<"1", "6">>
RWY34 == <<"3", "4">>
RWY07 == <<"0", "7">>
MLF == <<"M", "L", "F">>
LUX == <<"L", "U", "X">>
HLD == <<"H", "L", "D">>
BAK == <<"B", "A", "K">>
RBL == <<"R", "B", "L">>
ROP == <<"R", "O", "P">>
COW == <<"C", "O", "W">>
DRK == <<"D", "R", "K">>
KSEAX == <<"K", "S", "E", "A", "X">>
ZZZ == <<"Z", "Z", "Z">>
ST1 == <<"S", "T", "1">>
SD1 == <<"S", "D", "1">>
ZZ9 == <<"Z", "Z", "9">>
DOT == <<".">>

\* the procedures the navigation library knows: one STAR whose exits encode
\* the arrival runway, one SID whose entries encode the departure runway
ProcedureNames == {ST1, SD1}

procedureType(procedure) == IF procedure = ST1 THEN LEG_TYPE.STAR ELSE LEG_TYPE.SID

EntryNames(procedure) ==
    IF procedure = ST1 THEN {MLF} ELSE {concat(KSEA, RWY16), concat(KSEA, RWY34)}

ExitNames(procedure) ==
    IF procedure = ST1 THEN {concat(KSEA, RWY16), concat(KSEA, RWY34)} ELSE {DRK, KSEAX}

hasEntry(procedure, name) == name \in EntryNames(procedure)
hasExit(procedure, name) == name \in ExitNames(procedure)

EntryFixes(procedure, entry) ==
    IF procedure = ST1 THEN <<MLF, LUX>>
    ELSE IF entry = concat(KSEA, RWY16) THEN <<RBL>> ELSE <<ROP>>

ExitFixes(procedure, exit) ==
    IF procedure = ST1
    THEN IF exit = concat(KSEA, RWY16) THEN <<HLD, LUX>> ELSE <<BAK>>
    ELSE IF exit = DRK THEN <<COW, DRK>> ELSE <<KSEAX>>

\* NavigationLibrary.getProcedure / getAirway: the definition, or nothing
getProcedure(name) == IF name \in ProcedureNames THEN name ELSE undefined
getAirway(name) == undefined

\* new WaypointModel(name): a fresh object, told apart by its id, which is
\* the number of the derivation that constructed it and its place in it
WaypointModel(name, id) == [name |-> name, id |-> id]

\* the altitude restrictions of a waypoint: a fix given by its bare name has
\* none, the fixes of the procedures have those of the navigation data
altitudeMinimum(waypoint) ==
    IF waypoint.name = LUX THEN 80
    ELSE IF waypoint.name = HLD THEN 60
    ELSE INVALID_NUMBER

altitudeMaximum(waypoint) ==
    IF waypoint.name = LUX THEN 120
    ELSE IF waypoint.name = BAK THEN 100
    ELSE INVALID_NUMBER

WaypointModelsNamed(names, derivation) ==
    [i \in 1..Len(names) |-> WaypointModel(names[i], <<derivation, i>>)]

\* ProcedureDefinitionModel.getWaypointModelsForEntryAndExit: fails unless
\* both the entry and the exit belong to the procedure
canExpand(procedure, entry, exit) == hasEntry(procedure, entry) /\ hasExit(procedure, exit)

getWaypointModelsForEntryAndExit(procedure, entry, exit, derivation) ==
    WaypointModelsNamed(EntryFixes(procedure, entry) \o ExitFixes(procedure, exit), derivation)

\* ------------------------------ INPUTS ------------------------------

RouteAlphabet == {"A", "."}

Route(entry, name, exit) == entry \o DOT \o name \o DOT \o exit

\* every string over RouteAlphabet of MaxRouteLen characters or fewer that has
\* a divider
GeneratedRouteStrings ==
    {str \in UNION {[1..n -> RouteAlphabet] : n \in 1..MaxRouteLen} :
        \E i \in 1..Len(str) : str[i] = "."}

\* direct fixes: strings without a divider
DirectRouteStrings == {[i \in 1..n |-> "A"] : n \in 1..2}

\* route strings that name the fixes and procedures of the navigation data:
\* a direct fix, a STAR, a SID to a fix
ValidRouteStrings ==
    {MLF,
     Route(MLF, ST1, concat(KSEA, RWY16)),
     Route(concat(KSEA, RWY16), SD1, DRK)}

\* two dividers in a row, four tokens, two tokens, a procedure the library
\* does not know, and an entry the STAR does not have
InvalidRouteStrings ==
    {MLF \o DOT \o DOT \o DRK,
     Route(MLF, ST1, LUX) \o DOT \o DRK,
     MLF \o DOT \o ST1,
     Route(MLF, ZZ9, concat(KSEA, RWY16)),
     Route(ZZZ, ST1, concat(KSEA, RWY16))}

NamedRouteStrings == ValidRouteStrings \cup InvalidRouteStrings

\* the route strings init is called with on an instance: a direct fix, a
\* STAR, and three it throws for (two dividers in a row, four tokens, a
\* procedure the library does not know)
ReinitRouteStrings ==
    {MLF,
     Route(MLF, ST1, concat(KSEA, RWY16)),
     MLF \o DOT \o DOT \o DRK,
     Route(MLF, ST1, LUX) \o DOT \o DRK,
     Route(MLF, ZZ9, concat(KSEA, RWY16))}

\* a SID to a fix whose name begins with the airport's
OtherRouteStrings == {Route(concat(KSEA, RWY16), SD1, KSEAX)}

RouteStrings ==
    GeneratedRouteStrings \cup DirectRouteStrings \cup NamedRouteStrings \cup OtherRouteStrings

RunwayNames == {RWY16, RWY34, RWY07}

\* the names to skip to: of fixes of the procedures, of no fix, and in lower case
WaypointNames == {MLF, LUX, ZZZ, <<"m", "l", "f">>}

\* the names asked of hasWaypoint: of a fix the STAR passes twice, and in lower case
QueriedNames == {LUX, <<"m", "l", "f">>}

\* ------------------------------ STATE ------------------------------

VARIABLES
    constructed,                  \* whether the constructor has returned an instance
    airwayModel,                  \* this._airwayModel
    legType,                      \* this._legType
    procedureDefinitionModel,     \* this._procedureDefinitionModel
    previousWaypointCollection,   \* this._previousWaypointCollection
    routeString,                  \* this._routeString
    waypointCollection,           \* this._waypointCollection
    derivations,                  \* calls of init, and runway updates that generated
    expansion,                    \* the waypoints generated by the last of them that returned
    lastCall,                     \* the method called last
    lastResult,                   \* what that call returned, or the error it threw
    resetCalls,                   \* the waypoints whose reset() ran, when the last call was reset()
    runStart,                     \* both collections before a run of moveToNextWaypoint
    runLength                     \* the number of moveToNextWaypoint calls in that run

vars == <<constructed, airwayModel, legType, procedureDefinitionModel,
          previousWaypointCollection, routeString, waypointCollection, derivations,
          expansion, lastCall, lastResult, resetCalls, runStart, runLength>>

\* the instance as a record, for the methods written as operators
this == [airwayModel |-> airwayModel,
         legType |-> legType,
         procedureDefinitionModel |-> procedureDefinitionModel,
         previousWaypointCollection |-> previousWaypointCollection,
         routeString |-> routeString,
         waypointCollection |-> waypointCollection]

\* the property defaults the constructor sets before it calls init
defaults == [airwayModel |-> null,
             legType |-> "",
             procedureDefinitionModel |-> null,
             previousWaypointCollection |-> <<>>,
             routeString |-> <<>>,
             waypointCollection |-> <<>>]

Becomes(leg) ==
    /\ airwayModel' = leg.airwayModel
    /\ legType' = leg.legType
    /\ procedureDefinitionModel' = leg.procedureDefinitionModel
    /\ previousWaypointCollection' = leg.previousWaypointCollection
    /\ routeString' = leg.routeString
    /\ waypointCollection' = leg.waypointCollection

\* a call other than moveToNextWaypoint starts a new run at the state it leaves
NewRun(leg) ==
    /\ runStart' = [waypoints |-> leg.waypointCollection,
                    previous |-> leg.previousWaypointCollection]
    /\ runLength' = 0

Returned(leg, value, generated) == [leg |-> leg, result |-> value, made |-> generated]
Threw(leg, error) == [leg |-> leg, result |-> error, made |-> 0]

\* the errors the methods throw: the two of _ensureRouteStringIsSingleSegment,
\* the one of _generateWaypointCollection, the failure of the procedure's
\* expansion, a property read or method call on undefined or null, and the
\* one of hasWaypoint
NotSingleSegment == "TypeError: Expected single fix or single procedure route string"
NotSingleProcedure == "TypeError: Expected single procedure route string"
NoProcedure == "TypeError: Unable to generate waypoints because the requested procedure does not exist"
NoExpansion == "Error: invalid entry or exit"
NoProperty == "TypeError: Cannot read property of undefined"
NoFixName == "TypeError: Expected valid fix name but received"
Errors == {NotSingleSegment, NotSingleProcedure, NoProcedure, NoExpansion, NoProperty,
           NoFixName}

\* ------------------------------ ACCESSORS ------------------------------

isProcedureLeg(leg) == leg.legType = LEG_TYPE.PROCEDURE

\* isSidLeg / isStarLeg read a property of the procedure definition, which
\* throws when the leg is a procedure leg without one
isSidLeg(leg) ==
    IF ~isProcedureLeg(leg) THEN [threw |-> FALSE, value |-> FALSE]
    ELSE IF _isNil(leg.procedureDefinitionModel) THEN [threw |-> TRUE, value |-> FALSE]
    ELSE [threw |-> FALSE,
          value |-> procedureType(leg.procedureDefinitionModel) = LEG_TYPE.SID]

isStarLeg(leg) ==
    IF ~isProcedureLeg(leg) THEN [threw |-> FALSE, value |-> FALSE]
    ELSE IF _isNil(leg.procedureDefinitionModel) THEN [threw |-> TRUE, value |-> FALSE]
    ELSE [threw |-> FALSE,
          value |-> procedureType(leg.procedureDefinitionModel) = LEG_TYPE.STAR]

\* ------------------------------ LIFECYCLE ------------------------------

_determineLegType(leg) ==
    IF indexOf(leg.routeString, <<".">>) = INVALID_NUMBER
    THEN LEG_TYPE.DIRECT
    ELSE LEG_TYPE.PROCEDURE

\* _ensureRouteStringIsSingleSegment with a limit of four tokens
_ensureRouteStringIsSingleSegment_four(str) ==
    IF indexOf(str, <<".", ".">>) # INVALID_INDEX THEN NotSingleSegment
    ELSE IF Len(split(str, ".")) > 4 THEN NotSingleProcedure
    ELSE ""

\* the error thrown, or "" when the check passes
_ensureRouteStringIsSingleSegment(str) ==
    IF indexOf(str, <<".", ".">>) # INVALID_INDEX THEN NotSingleSegment
    ELSE IF Len(split(str, ".")) > 3 THEN NotSingleProcedure
    ELSE ""

_generateWaypointCollection(leg, entryOrFixName, exit, derivation) ==
    IF leg.legType = LEG_TYPE.DIRECT
    THEN [threw |-> "", value |-> <<WaypointModel(entryOrFixName, <<derivation, 1>>)>>]
    ELSE IF _isNil(leg.procedureDefinitionModel)
    THEN [threw |-> NoProcedure, value |-> <<>>]
    ELSE IF ~canExpand(leg.procedureDefinitionModel, entryOrFixName, exit)
    THEN [threw |-> NoExpansion, value |-> <<>>]
    ELSE [threw |-> "",
          value |-> getWaypointModelsForEntryAndExit(leg.procedureDefinitionModel,
                                                     entryOrFixName, exit, derivation)]

init(leg, str, derivation) ==
    LET named == [leg EXCEPT !.routeString = str]
        parts == split(str, PROCEDURE_OR_AIRWAY_SEGMENT_DIVIDER)
        entryOrFixName == elementAt(parts, 0)
        airwayOrProcedureName == elementAt(parts, 1)
        exit == elementAt(parts, 2)
        resolved == [named EXCEPT
                        !.legType = _determineLegType(named),
                        !.airwayModel = getAirway(airwayOrProcedureName),
                        !.procedureDefinitionModel = getProcedure(airwayOrProcedureName)]
        generated == _generateWaypointCollection(resolved, entryOrFixName, exit, derivation)
    IN  IF _ensureRouteStringIsSingleSegment(str) # ""
        THEN Threw(named, _ensureRouteStringIsSingleSegment(str))
        ELSE IF generated.threw # "" THEN Threw(resolved, generated.threw)
        ELSE Returned([resolved EXCEPT !.waypointCollection = generated.value],
                      "this", 1)

\* ------------------------------ PUBLIC ------------------------------

hasNextWaypoint(leg) == Len(leg.waypointCollection) > 1

\* hasWaypoint that looks in both collections
hasWaypoint_anywhere(leg, waypointName) ==
    LET upperCaseName == toUpperCase(waypointName)
    IN  IF _isNil(waypointName) THEN Threw(leg, NoFixName)
        ELSE IF \E i \in 1..Len(leg.waypointCollection) :
                    leg.waypointCollection[i].name = upperCaseName
        THEN Returned(leg, "true", 0)
        ELSE IF \E i \in 1..Len(leg.previousWaypointCollection) :
                    leg.previousWaypointCollection[i].name = upperCaseName
        THEN Returned(leg, "true", 0)
        ELSE Returned(leg, "false", 0)

hasWaypoint(leg, waypointName) ==
    LET upperCaseName == toUpperCase(waypointName)
    IN  IF _isNil(waypointName) THEN Threw(leg, NoFixName)
        ELSE IF \E i \in 1..Len(leg.waypointCollection) :
                    leg.waypointCollection[i].name = upperCaseName
        THEN Returned(leg, "true", 0)
        ELSE Returned(leg, "false", 0)

\* getProcedureBottomAltitude without the check of the leg type
getProcedureBottomAltitude_anyLeg(leg) ==
    LET minimumAltitudes == [i \in 1..Len(leg.waypointCollection) |->
                                altitudeMinimum(leg.waypointCollection[i])]
        positiveValueRestrictionList == _without(minimumAltitudes, INVALID_NUMBER)
    IN  MathMin(positiveValueRestrictionList)

getProcedureBottomAltitude(leg) ==
    LET minimumAltitudes == [i \in 1..Len(leg.waypointCollection) |->
                                altitudeMinimum(leg.waypointCollection[i])]
        positiveValueRestrictionList == _without(minimumAltitudes, INVALID_NUMBER)
    IN  IF ~isProcedureLeg(leg) THEN INVALID_NUMBER
        ELSE MathMin(positiveValueRestrictionList)

getProcedureTopAltitude(leg) ==
    LET maximumAltitudes == [i \in 1..Len(leg.waypointCollection) |->
                                altitudeMaximum(leg.waypointCollection[i])]
    IN  IF ~isProcedureLeg(leg) THEN INVALID_NUMBER
        ELSE MathMax(maximumAltitudes)

\* skipAllWaypointsInLeg with unshift in place of push
skipAllWaypointsInLeg_unshift(leg) ==
    [leg EXCEPT !.previousWaypointCollection = leg.waypointCollection \o @,
                !.waypointCollection = <<>>]

skipAllWaypointsInLeg(leg) ==
    [leg EXCEPT !.previousWaypointCollection = @ \o leg.waypointCollection,
                !.waypointCollection = <<>>]

\* moveToNextWaypoint with pop in place of shift
moveToNextWaypoint_pop(leg) ==
    LET waypointModelToMove ==
            IF leg.waypointCollection = <<>> THEN undefinedWaypoint
            ELSE leg.waypointCollection[Len(leg.waypointCollection)]
        popped ==
            IF leg.waypointCollection = <<>> THEN <<>>
            ELSE SubSeq(leg.waypointCollection, 1, Len(leg.waypointCollection) - 1)
    IN  [leg EXCEPT !.waypointCollection = popped,
                    !.previousWaypointCollection = Append(@, waypointModelToMove)]

\* moveToNextWaypoint that reads the front waypoint without removing it
moveToNextWaypoint_noShift(leg) ==
    LET waypointModelToMove ==
            IF leg.waypointCollection = <<>> THEN undefinedWaypoint
            ELSE Head(leg.waypointCollection)
    IN  [leg EXCEPT !.previousWaypointCollection = Append(@, waypointModelToMove)]

\* Array.prototype.shift on an empty array removes nothing and yields undefined
moveToNextWaypoint(leg) ==
    LET waypointModelToMove ==
            IF leg.waypointCollection = <<>> THEN undefinedWaypoint
            ELSE Head(leg.waypointCollection)
        shifted ==
            IF leg.waypointCollection = <<>> THEN <<>> ELSE Tail(leg.waypointCollection)
    IN  [leg EXCEPT !.waypointCollection = shifted,
                    !.previousWaypointCollection = Append(@, waypointModelToMove)]

\* _findIndexOfWaypointName with findLastIndex in place of findIndex
_findIndexOfWaypointName_last(leg, waypointName) ==
    LET hits == {i \in 1..Len(leg.waypointCollection) :
                    leg.waypointCollection[i].name = waypointName}
    IN  IF hits = {} THEN -1
        ELSE (CHOOSE i \in hits : \A j \in hits : i >= j) - 1

_findIndexOfWaypointName(leg, waypointName) ==
    LET hits == {i \in 1..Len(leg.waypointCollection) :
                    leg.waypointCollection[i].name = waypointName}
    IN  IF hits = {} THEN -1
        ELSE (CHOOSE i \in hits : \A j \in hits : i <= j) - 1

\* skipToWaypointName without the early return: splice(0, -1 + 1) after a
\* lookup that counts from one
skipToWaypointName_noReturn(leg, waypointName) ==
    LET waypointIndex == _findIndexOfWaypointName(leg, waypointName)
        numberOfWaypointsToMove == IF waypointIndex = INVALID_INDEX THEN 1 ELSE waypointIndex
        waypointModelsToMove == SubSeq(leg.waypointCollection, 1, numberOfWaypointsToMove)
        remaining == SubSeq(leg.waypointCollection, numberOfWaypointsToMove + 1,
                            Len(leg.waypointCollection))
    IN  Returned([leg EXCEPT !.waypointCollection = remaining,
                             !.previousWaypointCollection = @ \o waypointModelsToMove],
                 IF waypointIndex = INVALID_INDEX THEN "false" ELSE "undefined", 0)

skipToWaypointName(leg, waypointName) ==
    LET waypointIndex == _findIndexOfWaypointName(leg, waypointName)
        numberOfWaypointsToMove == waypointIndex
        waypointModelsToMove == SubSeq(leg.waypointCollection, 1, numberOfWaypointsToMove)
        remaining == SubSeq(leg.waypointCollection, numberOfWaypointsToMove + 1,
                            Len(leg.waypointCollection))
    IN  IF waypointIndex = INVALID_INDEX THEN Returned(leg, "false", 0)
        ELSE Returned([leg EXCEPT !.waypointCollection = remaining,
                                  !.previousWaypointCollection = @ \o waypointModelsToMove],
                      "undefined", 0)

\* updateStarLegForArrivalRunwayModel without the return for the runway the
\* route string already names
updateStarLegForArrivalRunwayModel_noSameRunway(leg, runwayName, derivation) ==
    LET routeStringComponents == split(leg.routeString, PROCEDURE_OR_AIRWAY_SEGMENT_DIVIDER)
        currentEntryName == elementAt(routeStringComponents, 0)
        currentExitName == elementAt(routeStringComponents, 2)
        nextExitName == concat(substr2(currentExitName, 0, 4), runwayName)
        generated == _generateWaypointCollection(leg, currentEntryName, nextExitName, derivation)
    IN  IF isStarLeg(leg).threw THEN Threw(leg, NoProperty)
        ELSE IF ~isStarLeg(leg).value THEN Returned(leg, "undefined", 0)
        ELSE IF currentExitName = undefined THEN Threw(leg, NoProperty)
        ELSE IF ~hasExit(leg.procedureDefinitionModel, nextExitName)
        THEN Returned(leg, "undefined", 0)
        ELSE IF generated.threw # "" THEN Threw(leg, generated.threw)
        ELSE Returned([leg EXCEPT !.waypointCollection = generated.value],
                      "undefined", 1)

updateStarLegForArrivalRunwayModel(leg, runwayName, derivation) ==
    LET routeStringComponents == split(leg.routeString, PROCEDURE_OR_AIRWAY_SEGMENT_DIVIDER)
        currentEntryName == elementAt(routeStringComponents, 0)
        currentExitName == elementAt(routeStringComponents, 2)
        currentRunwayName == substr(currentExitName, 4)
        nextRunwayName == runwayName
        nextExitName == concat(substr2(currentExitName, 0, 4), nextRunwayName)
        generated == _generateWaypointCollection(leg, currentEntryName, nextExitName, derivation)
    IN  IF isStarLeg(leg).threw THEN Threw(leg, NoProperty)
        ELSE IF ~isStarLeg(leg).value THEN Returned(leg, "undefined", 0)
        ELSE IF currentExitName = undefined THEN Threw(leg, NoProperty)
        ELSE IF runwayName = currentRunwayName THEN Returned(leg, "undefined", 0)
        ELSE IF ~hasExit(leg.procedureDefinitionModel, nextExitName)
        THEN Returned(leg, "undefined", 0)
        ELSE IF generated.threw # "" THEN Threw(leg, generated.threw)
        ELSE Returned([leg EXCEPT !.waypointCollection = generated.value],
                      "undefined", 1)

updateSidLegForDepartureRunwayModel(leg, runwayName, derivation) ==
    LET routeStringComponents == split(leg.routeString, PROCEDURE_OR_AIRWAY_SEGMENT_DIVIDER)
        currentEntryName == elementAt(routeStringComponents, 0)
        currentExitName == elementAt(routeStringComponents, 2)
        currentRunwayName == substr(currentEntryName, 4)
        nextRunwayName == runwayName
        nextEntryName == concat(substr2(currentExitName, 0, 4), nextRunwayName)
        generated == _generateWaypointCollection(leg, nextEntryName, currentExitName, derivation)
    IN  IF isSidLeg(leg).threw THEN Threw(leg, NoProperty)
        ELSE IF ~isSidLeg(leg).value THEN Returned(leg, "undefined", 0)
        ELSE IF currentExitName = undefined THEN Threw(leg, NoProperty)
        ELSE IF runwayName = currentRunwayName THEN Returned(leg, "undefined", 0)
        ELSE IF ~hasEntry(leg.procedureDefinitionModel, nextEntryName)
        THEN Returned(leg, "undefined", 0)
        ELSE IF generated.threw # "" THEN Threw(leg, generated.threw)
        ELSE Returned([leg EXCEPT !.waypointCollection = generated.value],
                      "undefined", 1)

\* ------------------------------ PRIVATE ------------------------------

\* skips all waypoints, then calls reset() on every element of the previous
\* collection in order; the call throws at the first element that is undefined
_resetWaypointCollection(leg) ==
    LET skipped == skipAllWaypointsInLeg(leg)
        all == skipped.previousWaypointCollection
        holes == {i \in 1..Len(all) : all[i] = undefinedWaypoint}
        firstHole == CHOOSE i \in holes : \A j \in holes : i <= j
    IN  IF holes = {}
        THEN [leg |-> skipped, threw |-> FALSE, calls |-> all]
        ELSE [leg |-> skipped, threw |-> TRUE, calls |-> SubSeq(all, 1, firstHole - 1)]

reset(leg) ==
    LET collected == _resetWaypointCollection(leg)
    IN  IF collected.threw
        THEN [leg |-> collected.leg, result |-> NoProperty, calls |-> collected.calls]
        ELSE [leg |-> [collected.leg EXCEPT !.airwayModel = null,
                                            !.legType = "",
                                            !.procedureDefinitionModel = null,
                                            !.previousWaypointCollection = <<>>,
                                            !.routeString = <<>>,
                                            !.waypointCollection = <<>>],
              result |-> "this", calls |-> collected.calls]

\* ------------------------------ ACTIONS ------------------------------

\* before the constructor is called there is no instance
Init ==
    /\ constructed = FALSE
    /\ airwayModel = defaults.airwayModel
    /\ legType = defaults.legType
    /\ procedureDefinitionModel = defaults.procedureDefinitionModel
    /\ previousWaypointCollection = defaults.previousWaypointCollection
    /\ routeString = defaults.routeString
    /\ waypointCollection = defaults.waypointCollection
    /\ derivations = 0
    /\ expansion = <<>>
    /\ lastCall = "none"
    /\ lastResult = "none"
    /\ resetCalls = <<>>
    /\ runStart = [waypoints |-> <<>>, previous |-> <<>>]
    /\ runLength = 0

\* new LegModel(navigationLibrary, str): sets the defaults and calls init;
\* when init throws, no instance results
ConstructorOf(str) ==
    LET outcome == init(defaults, str, derivations + 1)
        built == outcome.result \notin Errors
    IN  /\ ~constructed
        /\ derivations < MaxDerivations
        /\ lastCall' = "constructor"
        /\ constructed' = built
        /\ Becomes(IF built THEN outcome.leg ELSE defaults)
        /\ derivations' = derivations + 1
        /\ expansion' = IF built THEN outcome.leg.waypointCollection ELSE <<>>
        /\ lastResult' = outcome.result
        /\ NewRun(IF built THEN outcome.leg ELSE defaults)
        /\ resetCalls' = <<>>

Constructor == \E str \in RouteStrings : ConstructorOf(str)

\* init(navigationLibrary, str) called again on the instance
ReinitOf(str) ==
    LET outcome == init(this, str, derivations + 1)
    IN  /\ constructed
        /\ derivations < MaxDerivations
        /\ lastCall' = "init"
        /\ Becomes(outcome.leg)
        /\ derivations' = derivations + 1
        /\ expansion' = IF outcome.made = 1 THEN outcome.leg.waypointCollection ELSE expansion
        /\ lastResult' = outcome.result
        /\ NewRun(outcome.leg)
        /\ resetCalls' = <<>>
        /\ UNCHANGED constructed

Reinit == \E str \in ReinitRouteStrings : ReinitOf(str)

Reset ==
    LET outcome == reset(this)
    IN  /\ constructed
        /\ lastCall' = "reset"
        /\ Becomes(outcome.leg)
        /\ resetCalls' = outcome.calls
        /\ lastResult' = outcome.result
        /\ expansion' = IF outcome.result = "this" THEN <<>> ELSE expansion
        /\ NewRun(outcome.leg)
        /\ UNCHANGED <<constructed, derivations>>

UndefinedCount ==
    Cardinality({i \in 1..Len(previousWaypointCollection) :
                    previousWaypointCollection[i] = undefinedWaypoint})

MoveToNextWaypoint ==
    /\ constructed
    /\ waypointCollection = <<>> => UndefinedCount < MaxUndefined
    /\ lastCall' = "moveToNextWaypoint"
    /\ Becomes(moveToNextWaypoint(this))
    /\ lastResult' = "undefined"
    /\ runLength' = runLength + 1
    /\ resetCalls' = <<>>
    /\ UNCHANGED <<constructed, derivations, expansion, runStart>>

HasWaypointOf(waypointName) ==
    LET outcome == hasWaypoint(this, waypointName)
    IN  /\ constructed
        /\ lastCall' = "hasWaypoint"
        /\ Becomes(outcome.leg)
        /\ lastResult' = outcome.result
        /\ NewRun(outcome.leg)
        /\ resetCalls' = <<>>
        /\ UNCHANGED <<constructed, derivations, expansion>>

HasWaypoint == \E waypointName \in QueriedNames \cup {undefined} : HasWaypointOf(waypointName)

SkipAllWaypointsInLeg ==
    /\ constructed
    /\ lastCall' = "skipAllWaypointsInLeg"
    /\ Becomes(skipAllWaypointsInLeg(this))
    /\ lastResult' = "undefined"
    /\ NewRun(skipAllWaypointsInLeg(this))
    /\ resetCalls' = <<>>
    /\ UNCHANGED <<constructed, derivations, expansion>>

SkipToWaypointNameOf(waypointName) ==
    LET outcome == skipToWaypointName(this, waypointName)
    IN  /\ constructed
        /\ lastCall' = "skipToWaypointName"
        /\ Becomes(outcome.leg)
        /\ lastResult' = outcome.result
        /\ NewRun(outcome.leg)
        /\ resetCalls' = <<>>
        /\ UNCHANGED <<constructed, derivations, expansion>>

SkipToWaypointName == \E waypointName \in WaypointNames : SkipToWaypointNameOf(waypointName)

UpdateStarLegForArrivalRunwayModelOf(runwayName) ==
    LET outcome == updateStarLegForArrivalRunwayModel(this, runwayName, derivations + 1)
    IN  /\ constructed
        /\ lastCall' = "updateStarLegForArrivalRunwayModel"
        /\ outcome.made = 1 => derivations < MaxDerivations
        /\ Becomes(outcome.leg)
        /\ derivations' = derivations + outcome.made
        /\ expansion' = IF outcome.made = 1 THEN outcome.leg.waypointCollection ELSE expansion
        /\ lastResult' = outcome.result
        /\ NewRun(outcome.leg)
        /\ resetCalls' = <<>>
        /\ UNCHANGED constructed

UpdateStarLegForArrivalRunwayModel == \E runwayName \in RunwayNames : UpdateStarLegForArrivalRunwayModelOf(runwayName)

UpdateSidLegForDepartureRunwayModelOf(runwayName) ==
    LET outcome == updateSidLegForDepartureRunwayModel(this, runwayName, derivations + 1)
    IN  /\ constructed
        /\ lastCall' = "updateSidLegForDepartureRunwayModel"
        /\ outcome.made = 1 => derivations < MaxDerivations
        /\ Becomes(outcome.leg)
        /\ derivations' = derivations + outcome.made
        /\ expansion' = IF outcome.made = 1 THEN outcome.leg.waypointCollection ELSE expansion
        /\ lastResult' = outcome.result
        /\ NewRun(outcome.leg)
        /\ resetCalls' = <<>>
        /\ UNCHANGED constructed

UpdateSidLegForDepartureRunwayModel == \E runwayName \in RunwayNames : UpdateSidLegForDepartureRunwayModelOf(runwayName)

Next ==
    \/ Constructor
    \/ Reinit
    \/ Reset
    \/ HasWaypoint
    \/ MoveToNextWaypoint
    \/ SkipAllWaypointsInLeg
    \/ SkipToWaypointName
    \/ UpdateStarLegForArrivalRunwayModel
    \/ UpdateSidLegForDepartureRunwayModel

Spec == Init /\ [][Next]_vars

\* ------------------------------ PROPERTIES ------------------------------

Names(waypoints) == [i \in 1..Len(waypoints) |-> waypoints[i].name]

\* C1: after k calls of moveToNextWaypoint in a row on a leg that had n >= k
\* upcoming waypoints w1..wn and passed waypoints P, previous is P followed by
\* w1..wk and upcoming is w(k+1)..wn: the former front is the last passed
\* waypoint, the former second is the current one, and after n calls upcoming
\* is empty and previous is P followed by w1..wn.
C1_MoveToNextWaypointInOrder ==
    LET n == Len(runStart.waypoints)
    IN  runLength \in 1..n =>
            /\ previousWaypointCollection =
                   runStart.previous \o SubSeq(runStart.waypoints, 1, runLength)
            /\ waypointCollection = SubSeq(runStart.waypoints, runLength + 1, n)
            /\ previousWaypointCollection[Len(previousWaypointCollection)] =
                   runStart.waypoints[runLength]
            /\ runLength < n => waypointCollection[1] = runStart.waypoints[runLength + 1]
            /\ runLength = n => waypointCollection = <<>>

\* three waypoints or more moved one by one onto a non-empty previous collection
C1_Witness ==
    /\ lastCall = "moveToNextWaypoint"
    /\ runLength = Len(runStart.waypoints)
    /\ runLength >= 3
    /\ runStart.previous # <<>>

\* C2: moveToNextWaypoint on an empty collection throws and changes neither
\* collection.
C2_MoveOnEmptyThrows ==
    [][(MoveToNextWaypoint /\ waypointCollection = <<>>) =>
          /\ lastResult' \in Errors
          /\ UNCHANGED <<waypointCollection, previousWaypointCollection>>]_vars

\* the first waypoint named `name` is at index i (from zero) of the collection
FirstNamedAt(waypoints, name, i) ==
    /\ i + 1 \in 1..Len(waypoints)
    /\ waypoints[i + 1].name = name
    /\ \A j \in 1..i : waypoints[j].name # name

\* C3: skipToWaypointName(name), when the first upcoming waypoint of that name
\* is at index i, appends upcoming[0..i-1] to previous in order and leaves
\* upcoming[i..], whose front is the matched waypoint.
C3_SkipToFirstMatch ==
    [][\A name \in WaypointNames : \A i \in 0..Len(waypointCollection) :
          (SkipToWaypointNameOf(name) /\ FirstNamedAt(waypointCollection, name, i)) =>
              /\ previousWaypointCollection' =
                     previousWaypointCollection \o SubSeq(waypointCollection, 1, i)
              /\ waypointCollection' =
                     SubSeq(waypointCollection, i + 1, Len(waypointCollection))
              /\ waypointCollection'[1] = waypointCollection[i + 1]]_vars

\* a skip has left a waypoint at the front whose name occurs again behind it
C3_Witness ==
    /\ lastCall = "skipToWaypointName"
    /\ lastResult = "undefined"
    /\ previousWaypointCollection # <<>>
    /\ \E j \in 2..Len(waypointCollection) :
           waypointCollection[j].name = waypointCollection[1].name

\* C4: skipToWaypointName(name) with a name no upcoming waypoint has returns
\* false, throws nothing and leaves both collections, the leg type and the
\* route string as they were.
C4_SkipToAbsentName ==
    [][\A name \in WaypointNames :
          (SkipToWaypointNameOf(name)
              /\ \A i \in 1..Len(waypointCollection) : waypointCollection[i].name # name) =>
              /\ lastResult' = "false"
              /\ UNCHANGED <<waypointCollection, previousWaypointCollection,
                             legType, routeString>>]_vars

\* a skip returned false on a leg with upcoming and passed waypoints
C4_Witness ==
    /\ lastCall = "skipToWaypointName"
    /\ lastResult = "false"
    /\ waypointCollection # <<>>
    /\ previousWaypointCollection # <<>>

\* moveToNextWaypoint called until no waypoint is upcoming
RECURSIVE MoveUntilEmpty(_)
MoveUntilEmpty(leg) ==
    IF leg.waypointCollection = <<>> THEN leg ELSE MoveUntilEmpty(moveToNextWaypoint(leg))

\* C5: skipAllWaypointsInLeg leaves the two collections as calling
\* moveToNextWaypoint until the upcoming collection is empty would, and
\* changes nothing when it is empty already.
C5_SkipAllIsMoveUntilEmpty ==
    [][SkipAllWaypointsInLeg =>
          /\ waypointCollection' = MoveUntilEmpty(this).waypointCollection
          /\ previousWaypointCollection' = MoveUntilEmpty(this).previousWaypointCollection
          /\ waypointCollection = <<>> =>
                 UNCHANGED <<waypointCollection, previousWaypointCollection>>]_vars

\* a skip of the whole leg has left at least four real waypoints behind and none ahead
C5_Witness ==
    /\ lastCall = "skipAllWaypointsInLeg"
    /\ waypointCollection = <<>>
    /\ Len(previousWaypointCollection) >= 4
    /\ \A i \in 1..Len(previousWaypointCollection) :
           previousWaypointCollection[i] # undefinedWaypoint

\* the leg holds a procedure definition of the given type
IsProcedureLegOfType(type) ==
    /\ legType = LEG_TYPE.PROCEDURE
    /\ ~_isNil(procedureDefinitionModel)
    /\ procedureType(procedureDefinitionModel) = type

\* the first four characters of a token, and the characters after them
AirportOf(token) == SubSeq(token, 1, IF Len(token) < 4 THEN Len(token) ELSE 4)
RunwayOf(token) == SubSeq(token, 5, Len(token))

\* the names of the waypoints of the procedure's expansion
ExpansionNames(procedure, entry, exit) ==
    EntryFixes(procedure, entry) \o ExitFixes(procedure, exit)

\* C6, as claimed: updateStarLegForArrivalRunwayModel(runway) on a STAR leg
\* with route string entry.proc.exit replaces the upcoming waypoints by the
\* expansion for (entry, first four characters of exit + runway.name) when the
\* procedure has that exit, and leaves them as they were otherwise; the
\* previous waypoints, the leg type and the procedure are unchanged.
C6_ArrivalRunwayAsClaimed ==
    [][\A runwayName \in RunwayNames :
          UpdateStarLegForArrivalRunwayModelOf(runwayName) =>
              LET tokens == split(routeString, ".")
                  nextExit == AirportOf(tokens[3]) \o runwayName
                  replaces ==
                      /\ IsProcedureLegOfType(LEG_TYPE.STAR)
                      /\ Len(tokens) = 3
                      /\ hasExit(procedureDefinitionModel, nextExit)
                      /\ hasEntry(procedureDefinitionModel, tokens[1])
              IN  /\ IF replaces
                     THEN Names(waypointCollection') =
                              ExpansionNames(procedureDefinitionModel, tokens[1], nextExit)
                     ELSE waypointCollection' = waypointCollection
                  /\ UNCHANGED <<previousWaypointCollection, legType,
                                 procedureDefinitionModel>>]_vars

\* C6, amended: the replacement happens only when, besides, runway.name
\* differs from the runway the route string's exit names (its characters
\* after the fourth); for that runway the upcoming waypoints are left as
\* they were.
C6_ArrivalRunwayUpdate ==
    [][\A runwayName \in RunwayNames :
          UpdateStarLegForArrivalRunwayModelOf(runwayName) =>
              LET tokens == split(routeString, ".")
                  nextExit == AirportOf(tokens[3]) \o runwayName
                  replaces ==
                      /\ IsProcedureLegOfType(LEG_TYPE.STAR)
                      /\ Len(tokens) = 3
                      /\ runwayName # RunwayOf(tokens[3])
                      /\ hasExit(procedureDefinitionModel, nextExit)
                      /\ hasEntry(procedureDefinitionModel, tokens[1])
              IN  /\ IF replaces
                     THEN Names(waypointCollection') =
                              ExpansionNames(procedureDefinitionModel, tokens[1], nextExit)
                     ELSE waypointCollection' = waypointCollection
                  /\ UNCHANGED <<previousWaypointCollection, legType,
                                 procedureDefinitionModel>>]_vars

\* the STAR leg for runway 16 flies the expansion for runway 34 after it had
\* passed a waypoint
C6_Witness ==
    /\ lastCall = "updateStarLegForArrivalRunwayModel"
    /\ routeString = Route(MLF, ST1, concat(KSEA, RWY16))
    /\ Names(waypointCollection) = <<MLF, LUX, BAK>>
    /\ previousWaypointCollection # <<>>

\* C7: updateSidLegForDepartureRunwayModel(runway) on a SID leg with route
\* string entry.proc.exit replaces the upcoming waypoints by the expansion for
\* (first four characters of ENTRY + runway.name, exit) when the runway is
\* another one than the entry names and the procedure has that entry, and
\* leaves the leg unchanged otherwise.
C7_DepartureRunwayUpdate ==
    [][\A runwayName \in RunwayNames :
          UpdateSidLegForDepartureRunwayModelOf(runwayName) =>
              LET tokens == split(routeString, ".")
                  nextEntry == AirportOf(tokens[1]) \o runwayName
                  replaces ==
                      /\ IsProcedureLegOfType(LEG_TYPE.SID)
                      /\ Len(tokens) = 3
                      /\ runwayName # RunwayOf(tokens[1])
                      /\ hasEntry(procedureDefinitionModel, nextEntry)
                      /\ hasExit(procedureDefinitionModel, tokens[3])
              IN  /\ IF replaces
                     THEN Names(waypointCollection') =
                              ExpansionNames(procedureDefinitionModel, nextEntry, tokens[3])
                     ELSE waypointCollection' = waypointCollection
                  /\ UNCHANGED <<previousWaypointCollection, legType,
                                 procedureDefinitionModel>>]_vars

\* how many times reset() was called on the waypoint
ResetCount(calls, waypoint) == Cardinality({j \in 1..Len(calls) : calls[j] = waypoint})

\* C8: reset() returns without an error, has called reset() exactly once on
\* each waypoint that was upcoming, and leaves every property at its default,
\* so that init on the instance gives what init on a new instance gives.
C8_ResetCompletes ==
    [][Reset =>
          /\ lastResult' = "this"
          /\ \A i \in 1..Len(waypointCollection) :
                 ResetCount(resetCalls', waypointCollection[i]) = 1
          /\ legType' = ""
          /\ routeString' = <<>>
          /\ waypointCollection' = <<>>
          /\ previousWaypointCollection' = <<>>
          /\ procedureDefinitionModel' = null
          /\ airwayModel' = null
          /\ \A str \in NamedRouteStrings :
                 init(this', str, derivations + 1) = init(defaults, str, derivations + 1)]_vars

\* the step is a call of init with this route string, by the constructor or
\* on the instance; init stores the string before anything else
InitCalledWith(str) ==
    \/ lastCall' = "constructor" /\ ConstructorOf(str)
    \/ lastCall' = "init" /\ routeString' = str /\ ReinitOf(str)

\* C9: after init has returned, called by the constructor or on the instance
\* again, no waypoint is previous and the upcoming waypoints are those a new
\* leg of that route string has.
C9_InitLeavesNoPreviousWaypoints ==
    [][\A str \in RouteStrings :
          (InitCalledWith(str) /\ lastResult' \notin Errors) =>
              /\ previousWaypointCollection' = <<>>
              /\ waypointCollection' =
                     init(defaults, str, derivations + 1).leg.waypointCollection]_vars

DoubleDivider(str) == \E i \in 1..(Len(str) - 1) : str[i] = "." /\ str[i + 1] = "."
DividerCount(str) == Cardinality({i \in 1..Len(str) : str[i] = "."})

\* C10: init with a route string that has two dividers in a row, or more than
\* two dividers, throws one of the two errors of the single-segment check;
\* the constructor then yields no instance, and no waypoints are derived.
C10_MalformedRouteStringThrows ==
    [][lastCall' \in {"constructor", "init"} =>
          \A str \in RouteStrings :
              (InitCalledWith(str) /\ (DoubleDivider(str) \/ DividerCount(str) > 2)) =>
                  /\ lastResult' \in {NotSingleSegment, NotSingleProcedure}
                  /\ waypointCollection' = waypointCollection
                  /\ lastCall' = "constructor" => ~constructed']_vars

\* init on a leg with waypoints has thrown for a route string of four tokens
C10_Witness ==
    /\ lastCall = "init"
    /\ lastResult = NotSingleProcedure
    /\ DividerCount(routeString) > 2
    /\ ~DoubleDivider(routeString)
    /\ waypointCollection # <<>>

\* C11: the constructor, given a route string of exactly two tokens (one
\* divider), throws one of the two errors of the single-segment check and
\* yields no instance, also when the second token names a procedure the
\* library knows.
C11_TwoTokenRouteStringIsFormatError ==
    [][lastCall' = "constructor" =>
          \A str \in RouteStrings :
              (ConstructorOf(str) /\ DividerCount(str) = 1) =>
                  /\ lastResult' \in {NotSingleSegment, NotSingleProcedure}
                  /\ ~constructed']_vars

\* C12: the constructor, given a route string F without a divider, yields a
\* leg of type DIRECT with exactly one upcoming waypoint, named F, and no
\* previous waypoint; hasNextWaypoint() is false on it; the waypoint derived
\* is the same whatever the procedure definition is; and both altitude
\* queries return INVALID_NUMBER on a DIRECT leg, whatever its waypoints.
C12_DirectLeg ==
    [][/\ lastCall' = "constructor" =>
              \A str \in RouteStrings :
                  (ConstructorOf(str) /\ DividerCount(str) = 0) =>
                      /\ constructed'
                      /\ legType' = LEG_TYPE.DIRECT
                      /\ Len(waypointCollection') = 1
                      /\ waypointCollection'[1] = WaypointModel(str, <<derivations', 1>>)
                      /\ previousWaypointCollection' = <<>>
                      /\ ~hasNextWaypoint(this')
                      /\ \A definition \in ProcedureNames \cup {undefined, null} :
                             _generateWaypointCollection(
                                 [this' EXCEPT !.procedureDefinitionModel = definition],
                                 str, undefined, derivations').value = waypointCollection'
       /\ legType' = LEG_TYPE.DIRECT =>
              /\ getProcedureBottomAltitude(this') = INVALID_NUMBER
              /\ getProcedureTopAltitude(this') = INVALID_NUMBER]_vars

\* a leg has been built from a direct fix of two characters
C12_Witness ==
    /\ lastCall = "constructor"
    /\ constructed
    /\ routeString = <<"A", "A">>
    /\ legType = LEG_TYPE.DIRECT
    /\ Len(waypointCollection) = 1

\* C13: skipToWaypointName(name) looks the name up in upper case: whenever
\* the upper-case form of name is the name of an upcoming waypoint the skip
\* succeeds and that waypoint becomes the current one, so that the skip finds
\* a waypoint exactly when hasWaypoint(name) is true.
C13_SkipToIgnoresCase ==
    [][lastCall' = "skipToWaypointName" =>
          \A name \in WaypointNames :
              SkipToWaypointNameOf(name) =>
                  /\ (\E i \in 1..Len(waypointCollection) :
                          toUpperCase(waypointCollection[i].name) = toUpperCase(name)) =>
                         /\ lastResult' # "false"
                         /\ toUpperCase(waypointCollection'[1].name) = toUpperCase(name)
                  /\ lastResult' # "false" <=> hasWaypoint(this, name).result = "true"]_vars

\* some waypoint of the collection has the name, letter case aside
HasNamed(waypoints, name) ==
    LET upperCaseName == toUpperCase(name)
    IN  \E i \in 1..Len(waypoints) : toUpperCase(waypoints[i].name) = upperCaseName

\* C14: hasWaypoint(name) returns true exactly when some upcoming waypoint has
\* the name; for the name of a waypoint that is previous and of no upcoming
\* waypoint it returns false; and the call changes no property of the leg.
C14_HasWaypointLooksAtUpcomingOnly ==
    [][lastCall' = "hasWaypoint" =>
          \A name \in QueriedNames :
              HasWaypointOf(name) =>
                  /\ lastResult' = "true" <=> HasNamed(waypointCollection, name)
                  /\ (HasNamed(previousWaypointCollection, name)
                          /\ ~HasNamed(waypointCollection, name)) => lastResult' = "false"
                  /\ UNCHANGED <<airwayModel, legType, procedureDefinitionModel,
                                 previousWaypointCollection, routeString,
                                 waypointCollection>>]_vars

\* hasWaypoint has returned false on a leg that has upcoming waypoints and,
\* besides an upcoming LUX, a previous waypoint of a name no upcoming one has
C14_Witness ==
    /\ lastCall = "hasWaypoint"
    /\ lastResult = "false"
    /\ HasNamed(waypointCollection, LUX)
    /\ HasNamed(previousWaypointCollection, LUX)
    /\ \E i \in 1..Len(previousWaypointCollection) :
           /\ previousWaypointCollection[i] # undefinedWaypoint
           /\ ~HasNamed(waypointCollection, previousWaypointCollection[i].name)

\* C15: skipToWaypointName(name) returns true when an upcoming waypoint has
\* the name, and the skip is made, and false when none has.
C15_SkipToReturnsSuccess ==
    [][lastCall' = "skipToWaypointName" =>
          \A name \in WaypointNames :
              SkipToWaypointNameOf(name) =>
                  IF \E i \in 1..Len(waypointCollection) : waypointCollection[i].name = name
                  THEN lastResult' = "true"
                  ELSE lastResult' = "false"]_vars

\* C16: in every state of an initialised leg the previous waypoints followed
\* by the upcoming ones are the waypoints generated by the last init or
\* runway update that took effect.
C16_PreviousThenUpcomingIsExpansion ==
    (constructed /\ legType # "") =>
        previousWaypointCollection \o waypointCollection = expansion

\* C17: updateStarLegForArrivalRunwayModel(runway) on a STAR leg whose
\* procedure has the exit for that runway is a no-op when the leg already
\* flies the expansion for that runway, and otherwise leaves the upcoming
\* waypoints equal to the expansion for it: after any sequence of such calls
\* the leg is on the expansion of the runway requested last, so that a change
\* to another runway and back restores the first expansion.
C17_ArrivalRunwayFollowsLastRequest ==
    [][lastCall' = "updateStarLegForArrivalRunwayModel" =>
          \A runwayName \in RunwayNames :
              UpdateStarLegForArrivalRunwayModelOf(runwayName) =>
                  LET tokens == split(routeString, ".")
                      nextExit == AirportOf(tokens[3]) \o runwayName
                      applies ==
                          /\ IsProcedureLegOfType(LEG_TYPE.STAR)
                          /\ Len(tokens) = 3
                          /\ hasExit(procedureDefinitionModel, nextExit)
                          /\ hasEntry(procedureDefinitionModel, tokens[1])
                      requested ==
                          ExpansionNames(procedureDefinitionModel, tokens[1], nextExit)
                  IN  applies =>
                          IF Names(expansion) = requested
                          THEN UNCHANGED <<waypointCollection, previousWaypointCollection>>
                          ELSE Names(waypointCollection') = requested]_vars

\* C18: init called again on an initialised leg, when it throws for a route
\* string with two dividers in a row or more than three tokens, or for a
\* procedure the library does not know, leaves the route string, the leg
\* type, both definition references and both waypoint collections as they
\* were before the call.
C18_FailedInitChangesNothing ==
    [][lastCall' = "init" =>
          \A str \in ReinitRouteStrings :
              (/\ routeString' = str
               /\ ReinitOf(str)
               /\ lastResult' \in {NotSingleSegment, NotSingleProcedure, NoProcedure}) =>
                  UNCHANGED <<routeString, legType, airwayModel, procedureDefinitionModel,
                              waypointCollection, previousWaypointCollection>>]_vars

\* C19: in every state of an instance, also after an init that threw, a leg
\* of type PROCEDURE has a procedure definition, so that isSidLeg and
\* isStarLeg, and with them both runway updates, are evaluated without error.
C19_ProcedureLegHasDefinition ==
    (constructed /\ legType = LEG_TYPE.PROCEDURE) =>
        /\ ~_isNil(procedureDefinitionModel)
        /\ ~isSidLeg(this).threw
        /\ ~isStarLeg(this).threw

IsPrefix(a, b) == Len(a) <= Len(b) /\ SubSeq(b, 1, Len(a)) = a

\* C20: every step of moveToNextWaypoint, skipToWaypointName,
\* skipAllWaypointsInLeg and of the two runway updates leaves the previous
\* collection with its former content as a prefix, and the leg type, the
\* route string and the procedure definition unchanged; after a step of the
\* first three no waypoint object of the previous collection is upcoming.
C20_PreviousOnlyGrows ==
    [][lastCall' \in {"moveToNextWaypoint", "skipToWaypointName", "skipAllWaypointsInLeg",
                      "updateStarLegForArrivalRunwayModel",
                      "updateSidLegForDepartureRunwayModel"} =>
          /\ IsPrefix(previousWaypointCollection, previousWaypointCollection')
          /\ UNCHANGED <<legType, routeString, procedureDefinitionModel>>
          /\ lastCall' \in {"moveToNextWaypoint", "skipToWaypointName",
                            "skipAllWaypointsInLeg"} =>
                 \A i \in 1..Len(previousWaypointCollection') :
                     \A j \in 1..Len(waypointCollection') :
                         previousWaypointCollection'[i] # waypointCollection'[j]]_vars

\* a waypoint has been passed after a runway update that followed another
\* passed waypoint, and waypoints are still upcoming
C20_Witness ==
    /\ lastCall \in {"moveToNextWaypoint", "skipToWaypointName"}
    /\ waypointCollection # <<>>
    /\ \E i \in 1..Len(previousWaypointCollection) :
           \E j \in 1..Len(previousWaypointCollection) :
               /\ i < j
               /\ previousWaypointCollection[i] # undefinedWaypoint
               /\ previousWaypointCollection[j] # undefinedWaypoint
               /\ previousWaypointCollection[i].id[1] < previousWaypointCollection[j].id[1]
               /\ previousWaypointCollection[j].id[1] = waypointCollection[1].id[1]
               /\ legType = LEG_TYPE.PROCEDURE

====
